---------------------------- MODULE Spec2Model ----------------------------
(***************************************************************************)
(* Model of ivt_analysis.py: the rolling z-score spike detector            *)
(* (detect_spikes) and the batch pipeline run_analysis (preprocess, the    *)
(* per-application loop, the workbook dashboard and the HTML report).      *)
(*                                                                         *)
(* Representation of values                                                *)
(*   Num(v)  = <<"num", v>>   a numeric cell (v an integer)                *)
(*   NaN     = <<"nan">>      pandas NaN / NaT / None                      *)
(*   Text    = <<"text">>     a raw cell that is not parseable             *)
(*   strings that the code formats or sorts (application names, file       *)
(*   names) are sequences of character codes.                              *)
(* Real-valued results are kept exact, as integer numerators and           *)
(* denominators, and every comparison is done by cross-multiplication.     *)
(***************************************************************************)
EXTENDS Integers, Sequences, FiniteSets, TLC

VARIABLES
    pc,             \* position of the running function
    df,             \* run_analysis: the table ([columns, rows])
    apps,           \* run_analysis: the group keys, in loop order
    df_app,         \* loop body: the sorted rows of the current group
    spikes,         \* loop body: metric -> flag series
    zscores,        \* loop body: metric -> z-score series
    suspicious,     \* loop body: the suspicious flag series
    report_entries, \* run_analysis: the report entries appended so far
    charts_dir,     \* the charts directory: file name -> chart written
    workbook,       \* analysis.xlsx: the summary, raw_data and dashboard sheets
    html,           \* the per-app lines of the HTML report
    error,          \* the exception that ended the run, or "none"
    series,         \* detect_spikes: argument
    window,         \* detect_spikes: argument
    z_thresh,       \* detect_spikes: argument
    flag,           \* detect_spikes: first result
    z               \* detect_spikes: second result

vars == <<pc, df, apps, df_app, spikes, zscores, suspicious, report_entries,
          charts_dir, workbook, html, error, series, window, z_thresh, flag, z>>

runVars == <<df, apps, df_app, spikes, zscores, suspicious, report_entries,
             charts_dir, workbook, html, error>>

spikeVars == <<series, window, z_thresh, flag, z>>

-----------------------------------------------------------------------------
(* Values *)

NaN == <<"nan">>

Text == <<"text">>

Num(v) == <<"num", v>>

IsNum(c) == c[1] = "num"

isna(c) == c[1] = "nan"

Max(a, b) == IF a >= b THEN a ELSE b

Min(a, b) == IF a <= b THEN a ELSE b

\* a function over 1..n as the sequence of its values
AsSeq(f) == f \o <<>>

RECURSIVE RangeSum(_, _, _)
\* s[lo] + ... + s[hi]
RangeSum(s, lo, hi) == IF lo > hi THEN 0 ELSE s[hi] + RangeSum(s, lo, hi - 1)

RECURSIVE RangeSumSq(_, _, _)
\* s[lo]^2 + ... + s[hi]^2
RangeSumSq(s, lo, hi) ==
    IF lo > hi THEN 0 ELSE s[hi] * s[hi] + RangeSumSq(s, lo, hi - 1)

Sum(s) == RangeSum(s, 1, Len(s))

SumSq(s) == RangeSumSq(s, 1, Len(s))

-----------------------------------------------------------------------------
(* detect_spikes(series, window=24, z_thresh=3.0)                          *)

DefaultWindow == 24

DefaultZThresh == 3

\* The trailing window of row i starts at row WindowStart: it holds the last
\* `w` rows up to i, fewer at the start of the series (min_periods=1).
WindowStart(w, i) == Max(1, i - w + 1)

\* series.rolling(window, min_periods=1).mean(): the mean of row i is
\* sum / n, kept as <<"mean", sum, n>>.
rol_mean(s, w) ==
    AsSeq([i \in 1..Len(s) |->
            <<"mean", RangeSum(s, WindowStart(w, i), i),
              i - WindowStart(w, i) + 1>>])

\* The sample standard deviation (ddof=1) of a window of n values is
\* sqrt(ssd / (n * (n - 1))) with ssd = n * sum(x^2) - sum(x)^2; it is NaN
\* for a single value.  Kept as <<"std", ssd, n>>.
SumSqDev(n, sm, sq) == n * sq - sm * sm

RollingStd(s, w) ==
    AsSeq([i \in 1..Len(s) |->
            IF i - WindowStart(w, i) + 1 < 2 THEN NaN
            ELSE <<"std",
                   SumSqDev(i - WindowStart(w, i) + 1,
                            RangeSum(s, WindowStart(w, i), i),
                            RangeSumSq(s, WindowStart(w, i), i)),
                   i - WindowStart(w, i) + 1>>])

\* .replace(0, np.nan)
ReplaceZeroStd(sd) ==
    AsSeq([i \in DOMAIN sd |-> IF isna(sd[i]) THEN NaN
                               ELSE IF sd[i][2] = 0 THEN NaN ELSE sd[i]])

rol_std(s, w) == ReplaceZeroStd(RollingStd(s, w))

\* z = (series - rol_mean) / rol_std.  With d = n * x - sum, x - mean = d / n
\* and z^2 = d^2 * (n - 1) / (n * ssd); z is kept as <<"z", d, n, ssd>> and
\* has the sign of d.
Standardize(s, mean, sd) ==
    AsSeq([i \in 1..Len(s) |->
            IF isna(sd[i]) THEN NaN
            ELSE <<"z", mean[i][3] * s[i] - mean[i][2], mean[i][3], sd[i][2]>>])

ZScore(s, w) == Standardize(s, rol_mean(s, w), rol_std(s, w))

\* mutant: the deviation is divided by the rolling variance, not by the
\* rolling standard deviation: |d / n| / (ssd / (n * (n - 1))) > t
AbsGreaterVariance(zi, t) ==
    \/ t < 0
    \/ (IF zi[2] < 0 THEN -zi[2] ELSE zi[2]) * (zi[3] - 1) > t * zi[4]

\* z.abs() > z_thresh, for a z that is not NaN
AbsGreater(zi, t) ==
    \/ t < 0
    \/ zi[2] * zi[2] * (zi[3] - 1) > t * t * zi[3] * zi[4]

\* mutant: the undefined scores are filled with True
SpikeFlagFillTrue(zi, t) == IF isna(zi) THEN TRUE ELSE AbsGreater(zi, t)

\* (z.abs() > z_thresh).fillna(False): a comparison with NaN is False
SpikeFlag(zi, t) == IF isna(zi) THEN FALSE ELSE AbsGreater(zi, t)

\* line 68: the pair (flag, z)
FlagsOf(zz, t) == <<AsSeq([i \in DOMAIN zz |-> SpikeFlag(zz[i], t)]), zz>>

detect_spikes(s, w, t) == FlagsOf(ZScore(s, w), t)

-----------------------------------------------------------------------------
(* Tables.  After preprocess a table is [columns |-> set of column names,  *)
(* rows |-> sequence of rows]; a row is a function from the column names   *)
(* to cells.  Column names are strings; Chars gives their characters.      *)

Str(codes) == <<"str", codes>>

numcols == {"unique_idfas", "unique_ips", "unique_uas", "total_requests",
            "requests_per_idfa", "impressions", "impressions_per_idfa",
            "idfa_ip_ratio", "idfa_ua_ratio", "IVT"}

AppCandidates == <<"app", "app_name", "application", "bundle_id">>

SpikeMetrics == <<"idfa_ua_ratio", "requests_per_idfa", "impressions_per_idfa",
                  "idfa_ip_ratio">>

ChartMetrics == <<"idfa_ua_ratio", "requests_per_idfa", "impressions_per_idfa">>

ALL == Str(<<95, 95, 65, 76, 76, 95, 95>>)

Slash == 47

Underscore == 95

DotPng == <<46, 112, 110, 103>>

\* str(app): the name itself, "nan" for a missing value
StrOf(app) == IF isna(app) THEN <<110, 97, 110>> ELSE app[2]

Range(s) == {s[i] : i \in DOMAIN s}

\* the characters of a column name
Chars(name) ==
    CASE name = "Date" ->
           <<68, 97, 116, 101>>
      [] name = "Hour" ->
           <<72, 111, 117, 114>>
      [] name = "hour" ->
           <<104, 111, 117, 114>>
      [] name = "ts_col" ->
           <<116, 115, 95, 99, 111, 108>>
      [] name = "app" ->
           <<97, 112, 112>>
      [] name = "app_name" ->
           <<97, 112, 112, 95, 110, 97, 109, 101>>
      [] name = "application" ->
           <<97, 112, 112, 108, 105, 99, 97, 116, 105, 111, 110>>
      [] name = "bundle_id" ->
           <<98, 117, 110, 100, 108, 101, 95, 105, 100>>
      [] name = "unique_idfas" ->
           <<117, 110, 105, 113, 117, 101, 95, 105, 100, 102, 97, 115>>
      [] name = "unique_ips" ->
           <<117, 110, 105, 113, 117, 101, 95, 105, 112, 115>>
      [] name = "unique_uas" ->
           <<117, 110, 105, 113, 117, 101, 95, 117, 97, 115>>
      [] name = "total_requests" ->
           <<116, 111, 116, 97, 108, 95, 114, 101, 113, 117, 101, 115, 116,
             115>>
      [] name = "requests_per_idfa" ->
           <<114, 101, 113, 117, 101, 115, 116, 115, 95, 112, 101, 114, 95,
             105, 100, 102, 97>>
      [] name = "impressions" ->
           <<105, 109, 112, 114, 101, 115, 115, 105, 111, 110, 115>>
      [] name = "impressions_per_idfa" ->
           <<105, 109, 112, 114, 101, 115, 115, 105, 111, 110, 115, 95, 112,
             101, 114, 95, 105, 100, 102, 97>>
      [] name = "idfa_ip_ratio" ->
           <<105, 100, 102, 97, 95, 105, 112, 95, 114, 97, 116, 105, 111>>
      [] name = "idfa_ua_ratio" ->
           <<105, 100, 102, 97, 95, 117, 97, 95, 114, 97, 116, 105, 111>>
      [] name = "IVT" ->
           <<73, 86, 84>>

\* the column names the tables use
ColumnNames ==
    numcols \cup Range(AppCandidates) \cup {"Date", "Hour", "hour", "ts_col"}

\* the column name with the characters `codes`
Named(codes) == CHOOSE name \in ColumnNames : Chars(name) = codes

RECURSIVE Filter(_, _)
\* the rows of s whose mask is true, in order (boolean indexing)
Filter(s, mask) ==
    IF s = <<>> THEN <<>>
    ELSE IF Head(mask) THEN <<Head(s)>> \o Filter(Tail(s), Tail(mask))
         ELSE Filter(Tail(s), Tail(mask))

-----------------------------------------------------------------------------
(* preprocess(df).  The table passed in is [header, rows]: the column    *)
(* names as written, in order, and every row as the sequence of its cells. *)
(* The table returned is [columns, rows].                                  *)

\* pd.to_datetime(..., errors='coerce') and pd.to_numeric(..., errors='coerce')
coerce(c) == IF IsNum(c) THEN c ELSE NaN

\* the characters str.strip() removes: the white space of Unicode
Whitespace ==
    {9, 10, 11, 12, 13, 28, 29, 30, 31, 32, 133, 160, 5760, 8192, 8193, 8194,
     8195, 8196, 8197, 8198, 8199, 8200, 8201, 8202, 8232, 8233, 8239, 8287,
     12288}

RECURSIVE lstrip(_)
lstrip(s) ==
    IF s = <<>> THEN s
    ELSE IF Head(s) \in Whitespace THEN lstrip(Tail(s)) ELSE s

RECURSIVE rstrip(_)
rstrip(s) ==
    IF s = <<>> THEN s
    ELSE IF s[Len(s)] \in Whitespace THEN rstrip(SubSeq(s, 1, Len(s) - 1))
         ELSE s

\* c.strip()
strip(s) == rstrip(lstrip(s))

\* <<first, last, step, offset>>: the letters first, first + step, ..., last
\* beyond ASCII have their lower-case letter `offset` code points further
LowerRules ==
    {<<192, 214, 1, 32>>, <<216, 222, 1, 32>>, <<256, 302, 2, 1>>, <<306,
     310, 2, 1>>, <<313, 327, 2, 1>>, <<330, 374, 2, 1>>, <<376, 376, 1,
     -121>>, <<377, 381, 2, 1>>, <<385, 385, 1, 210>>, <<386, 388, 2, 1>>,
     <<390, 390, 1, 206>>, <<391, 391, 1, 1>>, <<393, 394, 1, 205>>, <<395,
     395, 1, 1>>, <<398, 398, 1, 79>>, <<399, 399, 1, 202>>, <<400, 400, 1,
     203>>, <<401, 401, 1, 1>>, <<403, 403, 1, 205>>, <<404, 404, 1, 207>>,
     <<406, 406, 1, 211>>, <<407, 407, 1, 209>>, <<408, 408, 1, 1>>, <<412,
     412, 1, 211>>, <<413, 413, 1, 213>>, <<415, 415, 1, 214>>, <<416, 420,
     2, 1>>, <<422, 422, 1, 218>>, <<423, 423, 1, 1>>, <<425, 425, 1, 218>>,
     <<428, 428, 1, 1>>, <<430, 430, 1, 218>>, <<431, 431, 1, 1>>, <<433,
     434, 1, 217>>, <<435, 437, 2, 1>>, <<439, 439, 1, 219>>, <<440, 440, 1,
     1>>, <<444, 444, 1, 1>>, <<452, 452, 1, 2>>, <<453, 453, 1, 1>>, <<455,
     455, 1, 2>>, <<456, 456, 1, 1>>, <<458, 458, 1, 2>>, <<459, 475, 2, 1>>,
     <<478, 494, 2, 1>>, <<497, 497, 1, 2>>, <<498, 500, 2, 1>>, <<502, 502,
     1, -97>>, <<503, 503, 1, -56>>, <<504, 542, 2, 1>>, <<544, 544, 1,
     -130>>, <<546, 562, 2, 1>>, <<570, 570, 1, 10795>>, <<571, 571, 1, 1>>,
     <<573, 573, 1, -163>>, <<574, 574, 1, 10792>>, <<577, 577, 1, 1>>,
     <<579, 579, 1, -195>>, <<580, 580, 1, 69>>, <<581, 581, 1, 71>>, <<582,
     590, 2, 1>>, <<880, 882, 2, 1>>, <<886, 886, 1, 1>>, <<895, 895, 1,
     116>>, <<902, 902, 1, 38>>, <<904, 906, 1, 37>>, <<908, 908, 1, 64>>,
     <<910, 911, 1, 63>>, <<913, 929, 1, 32>>, <<932, 939, 1, 32>>, <<975,
     975, 1, 8>>, <<984, 1006, 2, 1>>, <<1012, 1012, 1, -60>>, <<1015, 1015,
     1, 1>>, <<1017, 1017, 1, -7>>, <<1018, 1018, 1, 1>>, <<1021, 1023, 1,
     -130>>, <<1024, 1039, 1, 80>>, <<1040, 1071, 1, 32>>, <<1120, 1152, 2,
     1>>, <<1162, 1214, 2, 1>>, <<1216, 1216, 1, 15>>, <<1217, 1229, 2, 1>>,
     <<1232, 1326, 2, 1>>, <<1329, 1366, 1, 48>>, <<4256, 4293, 1, 7264>>,
     <<4295, 4295, 1, 7264>>, <<4301, 4301, 1, 7264>>, <<5024, 5103, 1,
     38864>>, <<5104, 5109, 1, 8>>, <<7312, 7354, 1, -3008>>, <<7357, 7359,
     1, -3008>>, <<7680, 7828, 2, 1>>, <<7838, 7838, 1, -7615>>, <<7840,
     7934, 2, 1>>, <<7944, 7951, 1, -8>>, <<7960, 7965, 1, -8>>, <<7976,
     7983, 1, -8>>, <<7992, 7999, 1, -8>>, <<8008, 8013, 1, -8>>, <<8025,
     8031, 2, -8>>, <<8040, 8047, 1, -8>>, <<8072, 8079, 1, -8>>, <<8088,
     8095, 1, -8>>, <<8104, 8111, 1, -8>>, <<8120, 8121, 1, -8>>, <<8122,
     8123, 1, -74>>, <<8124, 8124, 1, -9>>, <<8136, 8139, 1, -86>>, <<8140,
     8140, 1, -9>>, <<8152, 8153, 1, -8>>, <<8154, 8155, 1, -100>>, <<8168,
     8169, 1, -8>>, <<8170, 8171, 1, -112>>, <<8172, 8172, 1, -7>>, <<8184,
     8185, 1, -128>>, <<8186, 8187, 1, -126>>, <<8188, 8188, 1, -9>>, <<8486,
     8486, 1, -7517>>, <<8490, 8490, 1, -8383>>, <<8491, 8491, 1, -8262>>,
     <<8498, 8498, 1, 28>>, <<8544, 8559, 1, 16>>, <<8579, 8579, 1, 1>>,
     <<9398, 9423, 1, 26>>, <<11264, 11311, 1, 48>>, <<11360, 11360, 1, 1>>,
     <<11362, 11362, 1, -10743>>, <<11363, 11363, 1, -3814>>, <<11364, 11364,
     1, -10727>>, <<11367, 11371, 2, 1>>, <<11373, 11373, 1, -10780>>,
     <<11374, 11374, 1, -10749>>, <<11375, 11375, 1, -10783>>, <<11376,
     11376, 1, -10782>>, <<11378, 11378, 1, 1>>, <<11381, 11381, 1, 1>>,
     <<11390, 11391, 1, -10815>>, <<11392, 11490, 2, 1>>, <<11499, 11501, 2,
     1>>, <<11506, 11506, 1, 1>>, <<42560, 42604, 2, 1>>, <<42624, 42650, 2,
     1>>, <<42786, 42798, 2, 1>>, <<42802, 42862, 2, 1>>, <<42873, 42875, 2,
     1>>, <<42877, 42877, 1, -35332>>, <<42878, 42886, 2, 1>>, <<42891,
     42891, 1, 1>>, <<42893, 42893, 1, -42280>>, <<42896, 42898, 2, 1>>,
     <<42902, 42920, 2, 1>>, <<42922, 42922, 1, -42308>>, <<42923, 42923, 1,
     -42319>>, <<42924, 42924, 1, -42315>>, <<42925, 42925, 1, -42305>>,
     <<42926, 42926, 1, -42308>>, <<42928, 42928, 1, -42258>>, <<42929,
     42929, 1, -42282>>, <<42930, 42930, 1, -42261>>, <<42931, 42931, 1,
     928>>, <<42932, 42946, 2, 1>>, <<42948, 42948, 1, -48>>, <<42949, 42949,
     1, -42307>>, <<42950, 42950, 1, -35384>>, <<42951, 42953, 2, 1>>,
     <<42960, 42960, 1, 1>>, <<42966, 42968, 2, 1>>, <<42997, 42997, 1, 1>>,
     <<65313, 65338, 1, 32>>, <<66560, 66599, 1, 40>>, <<66736, 66771, 1,
     40>>, <<66928, 66938, 1, 39>>, <<66940, 66954, 1, 39>>, <<66956, 66962,
     1, 39>>, <<66964, 66965, 1, 39>>, <<68736, 68786, 1, 64>>, <<71840,
     71871, 1, 32>>, <<93760, 93791, 1, 32>>, <<125184, 125217, 1, 34>>}

InRule(c, r) == r[1] <= c /\ c <= r[2] /\ (c - r[1]) % r[3] = 0

\* the lower-case letter of one character that has one
ToLower(c) ==
    IF c < 128 THEN (IF c \in 65..90 THEN c + 32 ELSE c)
    ELSE IF \E r \in LowerRules : InRule(c, r)
         THEN c + (CHOOSE r \in LowerRules : InRule(c, r))[4]
         ELSE c

\* <<first, last>>: the characters a word goes on through (accents,
\* apostrophes, modifier letters: Case_Ignorable)
CaseIgnorableRanges ==
    {<<39, 39>>, <<46, 46>>, <<58, 58>>, <<94, 94>>, <<96, 96>>, <<168,
     168>>, <<173, 173>>, <<175, 175>>, <<180, 180>>, <<183, 184>>, <<688,
     879>>, <<884, 885>>, <<890, 890>>, <<900, 901>>, <<903, 903>>, <<1155,
     1161>>, <<1369, 1369>>, <<1375, 1375>>, <<1425, 1469>>, <<1471, 1471>>,
     <<1473, 1474>>, <<1476, 1477>>, <<1479, 1479>>, <<1524, 1524>>, <<1536,
     1541>>, <<1552, 1562>>, <<1564, 1564>>, <<1600, 1600>>, <<1611, 1631>>,
     <<1648, 1648>>, <<1750, 1757>>, <<1759, 1768>>, <<1770, 1773>>, <<1807,
     1807>>, <<1809, 1809>>, <<1840, 1866>>, <<1958, 1968>>, <<2027, 2037>>,
     <<2042, 2042>>, <<2045, 2045>>, <<2070, 2093>>, <<2137, 2139>>, <<2184,
     2184>>, <<2192, 2193>>, <<2200, 2207>>, <<2249, 2306>>, <<2362, 2362>>,
     <<2364, 2364>>, <<2369, 2376>>, <<2381, 2381>>, <<2385, 2391>>, <<2402,
     2403>>, <<2417, 2417>>, <<2433, 2433>>, <<2492, 2492>>, <<2497, 2500>>,
     <<2509, 2509>>, <<2530, 2531>>, <<2558, 2558>>, <<2561, 2562>>, <<2620,
     2620>>, <<2625, 2626>>, <<2631, 2632>>, <<2635, 2637>>, <<2641, 2641>>,
     <<2672, 2673>>, <<2677, 2677>>, <<2689, 2690>>, <<2748, 2748>>, <<2753,
     2757>>, <<2759, 2760>>, <<2765, 2765>>, <<2786, 2787>>, <<2810, 2815>>,
     <<2817, 2817>>, <<2876, 2876>>, <<2879, 2879>>, <<2881, 2884>>, <<2893,
     2893>>, <<2901, 2902>>, <<2914, 2915>>, <<2946, 2946>>, <<3008, 3008>>,
     <<3021, 3021>>, <<3072, 3072>>, <<3076, 3076>>, <<3132, 3132>>, <<3134,
     3136>>, <<3142, 3144>>, <<3146, 3149>>, <<3157, 3158>>, <<3170, 3171>>,
     <<3201, 3201>>, <<3260, 3260>>, <<3263, 3263>>, <<3270, 3270>>, <<3276,
     3277>>, <<3298, 3299>>, <<3328, 3329>>, <<3387, 3388>>, <<3393, 3396>>,
     <<3405, 3405>>, <<3426, 3427>>, <<3457, 3457>>, <<3530, 3530>>, <<3538,
     3540>>, <<3542, 3542>>, <<3633, 3633>>, <<3636, 3642>>, <<3654, 3662>>,
     <<3761, 3761>>, <<3764, 3772>>, <<3782, 3782>>, <<3784, 3789>>, <<3864,
     3865>>, <<3893, 3893>>, <<3895, 3895>>, <<3897, 3897>>, <<3953, 3966>>,
     <<3968, 3972>>, <<3974, 3975>>, <<3981, 3991>>, <<3993, 4028>>, <<4038,
     4038>>, <<4141, 4144>>, <<4146, 4151>>, <<4153, 4154>>, <<4157, 4158>>,
     <<4184, 4185>>, <<4190, 4192>>, <<4209, 4212>>, <<4226, 4226>>, <<4229,
     4230>>, <<4237, 4237>>, <<4253, 4253>>, <<4348, 4348>>, <<4957, 4959>>,
     <<5906, 5908>>, <<5938, 5939>>, <<5970, 5971>>, <<6002, 6003>>, <<6068,
     6069>>, <<6071, 6077>>, <<6086, 6086>>, <<6089, 6099>>, <<6103, 6103>>,
     <<6109, 6109>>, <<6155, 6159>>, <<6211, 6211>>, <<6277, 6278>>, <<6313,
     6313>>, <<6432, 6434>>, <<6439, 6440>>, <<6450, 6450>>, <<6457, 6459>>,
     <<6679, 6680>>, <<6683, 6683>>, <<6742, 6742>>, <<6744, 6750>>, <<6752,
     6752>>, <<6754, 6754>>, <<6757, 6764>>, <<6771, 6780>>, <<6783, 6783>>,
     <<6823, 6823>>, <<6832, 6862>>, <<6912, 6915>>, <<6964, 6964>>, <<6966,
     6970>>, <<6972, 6972>>, <<6978, 6978>>, <<7019, 7027>>, <<7040, 7041>>,
     <<7074, 7077>>, <<7080, 7081>>, <<7083, 7085>>, <<7142, 7142>>, <<7144,
     7145>>, <<7149, 7149>>, <<7151, 7153>>, <<7212, 7219>>, <<7222, 7223>>,
     <<7288, 7293>>, <<7376, 7378>>, <<7380, 7392>>, <<7394, 7400>>, <<7405,
     7405>>, <<7412, 7412>>, <<7416, 7417>>, <<7468, 7530>>, <<7544, 7544>>,
     <<7579, 7679>>, <<8125, 8125>>, <<8127, 8129>>, <<8141, 8143>>, <<8157,
     8159>>, <<8173, 8175>>, <<8189, 8190>>, <<8203, 8207>>, <<8216, 8217>>,
     <<8228, 8228>>, <<8231, 8231>>, <<8234, 8238>>, <<8288, 8292>>, <<8294,
     8303>>, <<8305, 8305>>, <<8319, 8319>>, <<8336, 8348>>, <<8400, 8432>>,
     <<11388, 11389>>, <<11503, 11505>>, <<11631, 11631>>, <<11647, 11647>>,
     <<11744, 11775>>, <<11823, 11823>>, <<12293, 12293>>, <<12330, 12333>>,
     <<12337, 12341>>, <<12347, 12347>>, <<12441, 12446>>, <<12540, 12542>>,
     <<40981, 40981>>, <<42232, 42237>>, <<42508, 42508>>, <<42607, 42610>>,
     <<42612, 42621>>, <<42623, 42623>>, <<42652, 42655>>, <<42736, 42737>>,
     <<42752, 42785>>, <<42864, 42864>>, <<42888, 42890>>, <<42994, 42996>>,
     <<43000, 43001>>, <<43010, 43010>>, <<43014, 43014>>, <<43019, 43019>>,
     <<43045, 43046>>, <<43052, 43052>>, <<43204, 43205>>, <<43232, 43249>>,
     <<43263, 43263>>, <<43302, 43309>>, <<43335, 43345>>, <<43392, 43394>>,
     <<43443, 43443>>, <<43446, 43449>>, <<43452, 43453>>, <<43471, 43471>>,
     <<43493, 43494>>, <<43561, 43566>>, <<43569, 43570>>, <<43573, 43574>>,
     <<43587, 43587>>, <<43596, 43596>>, <<43632, 43632>>, <<43644, 43644>>,
     <<43696, 43696>>, <<43698, 43700>>, <<43703, 43704>>, <<43710, 43711>>,
     <<43713, 43713>>, <<43741, 43741>>, <<43756, 43757>>, <<43763, 43764>>,
     <<43766, 43766>>, <<43867, 43871>>, <<43881, 43883>>, <<44005, 44005>>,
     <<44008, 44008>>, <<44013, 44013>>, <<64286, 64286>>, <<64434, 64450>>,
     <<65024, 65039>>, <<65043, 65043>>, <<65056, 65071>>, <<65106, 65106>>,
     <<65109, 65109>>, <<65279, 65279>>, <<65287, 65287>>, <<65294, 65294>>,
     <<65306, 65306>>, <<65342, 65342>>, <<65344, 65344>>, <<65392, 65392>>,
     <<65438, 65439>>, <<65507, 65507>>, <<65529, 65531>>, <<66045, 66045>>,
     <<66272, 66272>>, <<66422, 66426>>, <<67456, 67461>>, <<67463, 67504>>,
     <<67506, 67514>>, <<68097, 68099>>, <<68101, 68102>>, <<68108, 68111>>,
     <<68152, 68154>>, <<68159, 68159>>, <<68325, 68326>>, <<68900, 68903>>,
     <<69291, 69292>>, <<69446, 69456>>, <<69506, 69509>>, <<69633, 69633>>,
     <<69688, 69702>>, <<69744, 69744>>, <<69747, 69748>>, <<69759, 69761>>,
     <<69811, 69814>>, <<69817, 69818>>, <<69821, 69821>>, <<69826, 69826>>,
     <<69837, 69837>>, <<69888, 69890>>, <<69927, 69931>>, <<69933, 69940>>,
     <<70003, 70003>>, <<70016, 70017>>, <<70070, 70078>>, <<70089, 70092>>,
     <<70095, 70095>>, <<70191, 70193>>, <<70196, 70196>>, <<70198, 70199>>,
     <<70206, 70206>>, <<70367, 70367>>, <<70371, 70378>>, <<70400, 70401>>,
     <<70459, 70460>>, <<70464, 70464>>, <<70502, 70508>>, <<70512, 70516>>,
     <<70712, 70719>>, <<70722, 70724>>, <<70726, 70726>>, <<70750, 70750>>,
     <<70835, 70840>>, <<70842, 70842>>, <<70847, 70848>>, <<70850, 70851>>,
     <<71090, 71093>>, <<71100, 71101>>, <<71103, 71104>>, <<71132, 71133>>,
     <<71219, 71226>>, <<71229, 71229>>, <<71231, 71232>>, <<71339, 71339>>,
     <<71341, 71341>>, <<71344, 71349>>, <<71351, 71351>>, <<71453, 71455>>,
     <<71458, 71461>>, <<71463, 71467>>, <<71727, 71735>>, <<71737, 71738>>,
     <<71995, 71996>>, <<71998, 71998>>, <<72003, 72003>>, <<72148, 72151>>,
     <<72154, 72155>>, <<72160, 72160>>, <<72193, 72202>>, <<72243, 72248>>,
     <<72251, 72254>>, <<72263, 72263>>, <<72273, 72278>>, <<72281, 72283>>,
     <<72330, 72342>>, <<72344, 72345>>, <<72752, 72758>>, <<72760, 72765>>,
     <<72767, 72767>>, <<72850, 72871>>, <<72874, 72880>>, <<72882, 72883>>,
     <<72885, 72886>>, <<73009, 73014>>, <<73018, 73018>>, <<73020, 73021>>,
     <<73023, 73029>>, <<73031, 73031>>, <<73104, 73105>>, <<73109, 73109>>,
     <<73111, 73111>>, <<73459, 73460>>, <<78896, 78904>>, <<92912, 92916>>,
     <<92976, 92982>>, <<92992, 92995>>, <<94031, 94031>>, <<94095, 94111>>,
     <<94176, 94177>>, <<94179, 94180>>, <<110576, 110579>>, <<110581,
     110587>>, <<110589, 110590>>, <<113821, 113822>>, <<113824, 113827>>,
     <<118528, 118573>>, <<118576, 118598>>, <<119143, 119145>>, <<119155,
     119170>>, <<119173, 119179>>, <<119210, 119213>>, <<119362, 119364>>,
     <<121344, 121398>>, <<121403, 121452>>, <<121461, 121461>>, <<121476,
     121476>>, <<121499, 121503>>, <<121505, 121519>>, <<122880, 122886>>,
     <<122888, 122904>>, <<122907, 122913>>, <<122915, 122916>>, <<122918,
     122922>>, <<123184, 123197>>, <<123566, 123566>>, <<123628, 123631>>,
     <<125136, 125142>>, <<125252, 125259>>, <<127995, 127999>>, <<917505,
     917505>>, <<917536, 917631>>, <<917760, 917999>>}

\* <<first, last>>: the cased letters that are not among the former
CasedRanges ==
    {<<65, 90>>, <<97, 122>>, <<170, 170>>, <<181, 181>>, <<186, 186>>,
     <<192, 214>>, <<216, 246>>, <<248, 442>>, <<444, 447>>, <<452, 659>>,
     <<661, 687>>, <<880, 883>>, <<886, 887>>, <<891, 893>>, <<895, 895>>,
     <<902, 902>>, <<904, 906>>, <<908, 908>>, <<910, 929>>, <<931, 1013>>,
     <<1015, 1153>>, <<1162, 1327>>, <<1329, 1366>>, <<1376, 1416>>, <<4256,
     4293>>, <<4295, 4295>>, <<4301, 4301>>, <<4304, 4346>>, <<4349, 4351>>,
     <<5024, 5109>>, <<5112, 5117>>, <<7296, 7304>>, <<7312, 7354>>, <<7357,
     7359>>, <<7424, 7467>>, <<7531, 7543>>, <<7545, 7578>>, <<7680, 7957>>,
     <<7960, 7965>>, <<7968, 8005>>, <<8008, 8013>>, <<8016, 8023>>, <<8025,
     8025>>, <<8027, 8027>>, <<8029, 8029>>, <<8031, 8061>>, <<8064, 8116>>,
     <<8118, 8124>>, <<8126, 8126>>, <<8130, 8132>>, <<8134, 8140>>, <<8144,
     8147>>, <<8150, 8155>>, <<8160, 8172>>, <<8178, 8180>>, <<8182, 8188>>,
     <<8450, 8450>>, <<8455, 8455>>, <<8458, 8467>>, <<8469, 8469>>, <<8473,
     8477>>, <<8484, 8484>>, <<8486, 8486>>, <<8488, 8488>>, <<8490, 8493>>,
     <<8495, 8500>>, <<8505, 8505>>, <<8508, 8511>>, <<8517, 8521>>, <<8526,
     8526>>, <<8544, 8575>>, <<8579, 8580>>, <<9398, 9449>>, <<11264,
     11387>>, <<11390, 11492>>, <<11499, 11502>>, <<11506, 11507>>, <<11520,
     11557>>, <<11559, 11559>>, <<11565, 11565>>, <<42560, 42605>>, <<42624,
     42651>>, <<42786, 42863>>, <<42865, 42887>>, <<42891, 42894>>, <<42896,
     42954>>, <<42960, 42961>>, <<42963, 42963>>, <<42965, 42969>>, <<42997,
     42998>>, <<43002, 43002>>, <<43824, 43866>>, <<43872, 43880>>, <<43888,
     43967>>, <<64256, 64262>>, <<64275, 64279>>, <<65313, 65338>>, <<65345,
     65370>>, <<66560, 66639>>, <<66736, 66771>>, <<66776, 66811>>, <<66928,
     66938>>, <<66940, 66954>>, <<66956, 66962>>, <<66964, 66965>>, <<66967,
     66977>>, <<66979, 66993>>, <<66995, 67001>>, <<67003, 67004>>, <<68736,
     68786>>, <<68800, 68850>>, <<71840, 71903>>, <<93760, 93823>>, <<119808,
     119892>>, <<119894, 119964>>, <<119966, 119967>>, <<119970, 119970>>,
     <<119973, 119974>>, <<119977, 119980>>, <<119982, 119993>>, <<119995,
     119995>>, <<119997, 120003>>, <<120005, 120069>>, <<120071, 120074>>,
     <<120077, 120084>>, <<120086, 120092>>, <<120094, 120121>>, <<120123,
     120126>>, <<120128, 120132>>, <<120134, 120134>>, <<120138, 120144>>,
     <<120146, 120485>>, <<120488, 120512>>, <<120514, 120538>>, <<120540,
     120570>>, <<120572, 120596>>, <<120598, 120628>>, <<120630, 120654>>,
     <<120656, 120686>>, <<120688, 120712>>, <<120714, 120744>>, <<120746,
     120770>>, <<120772, 120779>>, <<122624, 122633>>, <<122635, 122654>>,
     <<125184, 125251>>, <<127280, 127305>>, <<127312, 127337>>, <<127344,
     127369>>}

InRanges(c, ranges) == \E r \in ranges : r[1] <= c /\ c <= r[2]

IsCaseIgnorable(c) == InRanges(c, CaseIgnorableRanges)

IsCased(c) == InRanges(c, CasedRanges)

RECURSIVE SkipBack(_, _)
\* the last position up to j that is not case-ignorable, 0 when none
SkipBack(s, j) ==
    IF j < 1 THEN 0
    ELSE IF IsCaseIgnorable(s[j]) THEN SkipBack(s, j - 1) ELSE j

RECURSIVE SkipForward(_, _)
\* the first position from j on that is not case-ignorable, Len(s) + 1 when
\* none
SkipForward(s, j) ==
    IF j > Len(s) THEN j
    ELSE IF IsCaseIgnorable(s[j]) THEN SkipForward(s, j + 1) ELSE j

NotCasedAt(s, j) == j > Len(s) \/ ~IsCased(s[j])

CasedAt(s, j) == j >= 1 /\ IsCased(s[j])

\* a capital sigma at position i ends a word: a cased letter before it and
\* none after it
FinalSigma(s, i) ==
    CasedAt(s, SkipBack(s, i - 1)) /\ NotCasedAt(s, SkipForward(s, i + 1))

CapitalSigma == 931

CapitalIDotted == 304

\* the lower case of the character at position i: capital sigma gives the
\* final or the medial sigma, the dotted capital I gives i and a combining dot
LowerAt(s, i) ==
    IF s[i] = CapitalSigma THEN <<IF FinalSigma(s, i) THEN 962 ELSE 963>>
    ELSE IF s[i] = CapitalIDotted THEN <<105, 775>>
    ELSE <<ToLower(s[i])>>

RECURSIVE LowerFrom(_, _)
LowerFrom(s, i) ==
    IF i > Len(s) THEN <<>> ELSE LowerAt(s, i) \o LowerFrom(s, i + 1)

\* c.lower()
lower(s) == LowerFrom(s, 1)

\* sub in s
Contains(s, sub) ==
    \E i \in 1..(Len(s) - Len(sub) + 1) : SubSeq(s, i, i + Len(sub) - 1) = sub

\* 'date', 'hour', 'time'
DateWords == {<<100, 97, 116, 101>>, <<104, 111, 117, 114>>,
              <<116, 105, 109, 101>>}

IsDateName(s) == \E w \in DateWords : Contains(lower(s), w)

\* line 47: the header with every name stripped
Stripped(header) == AsSeq([k \in DOMAIN header |-> strip(header[k])])

\* line 49, as positions in the header
date_cols(names) == {k \in DOMAIN names : IsDateName(names[k])}

Least(S) == CHOOSE k \in S : \A j \in S : k <= j

\* lines 50-54: the position of the column Date is parsed from, the first
\* column with a date-like name or else the first column
DateSource(names) ==
    IF date_cols(names) # {} THEN Least(date_cols(names)) ELSE 1

\* line 54: df.iloc[:,0] of a table without columns raises IndexError
NoFirstColumn(d) == d.header = <<>>

ColumnIndex(names, c) == CHOOSE k \in DOMAIN names : Named(names[k]) = c

\* lines 51/54 and 59-61: Date is set (added when the table has no such
\* column) and the numeric columns present are converted
Converted(names, columns, src, rows) ==
    [columns |-> columns \cup {"Date"},
     rows    |-> [i \in DOMAIN rows |->
                    [c \in columns \cup {"Date"} |->
                        IF c = "Date" THEN coerce(rows[i][src])
                        ELSE IF c \in numcols
                             THEN coerce(rows[i][ColumnIndex(names, c)])
                             ELSE rows[i][ColumnIndex(names, c)]]]]

Renamed(names, rows) ==
    Converted(names, {Named(names[k]) : k \in DOMAIN names},
              DateSource(names), rows)

preprocess(d) == Renamed(Stripped(d.header), d.rows)

-----------------------------------------------------------------------------
(* run_analysis: the grouping (lines 93-105)                               *)

RECURSIVE FirstCandidate(_, _)
FirstCandidate(cands, columns) ==
    IF cands = <<>> THEN "none"
    ELSE IF Head(cands) \in columns THEN Head(cands)
         ELSE FirstCandidate(Tail(cands), columns)

app_col(d) == FirstCandidate(AppCandidates, d.columns)

RECURSIVE Unique(_, _)
\* Series.unique(): the distinct values in order of first appearance; a
\* missing value is one of them
Unique(s, seen) ==
    IF s = <<>> THEN <<>>
    ELSE IF Head(s) \in seen THEN Unique(Tail(s), seen)
         ELSE <<Head(s)>> \o Unique(Tail(s), seen \cup {Head(s)})

Column(rows, c) == AsSeq([i \in DOMAIN rows |-> rows[i][c]])

AppsOf(d) ==
    IF app_col(d) = "none" THEN <<ALL>> ELSE Unique(Column(d.rows, app_col(d)), {})

\* df[df[app_col] == app]: a missing value equals nothing, itself included
GroupRows(d, app) ==
    IF app_col(d) = "none" THEN d.rows
    ELSE Filter(d.rows,
                AsSeq([i \in DOMAIN d.rows |->
                        /\ ~isna(app)
                        /\ d.rows[i][app_col(d)] = app]))

\* sort_values('Date') sorts with the default, unstable algorithm: the rows
\* come out with ascending timestamps, rows with equal timestamps in an order
\* the sort does not promise, whichever it is.  Rows without a timestamp go
\* last, in table order.
Take(rows, order) == AsSeq([j \in DOMAIN order |-> rows[order[j]]])

NoDate(rows) == AsSeq([i \in DOMAIN rows |-> isna(rows[i]["Date"])])

\* the positions of the rows with a timestamp
Timed(rows) == {i \in DOMAIN rows : ~isna(rows[i]["Date"])}

\* the positions of `left` with the earliest timestamp
Earliest(rows, left) ==
    {i \in left : \A j \in left : rows[i]["Date"][2] <= rows[j]["Date"][2]}

RECURSIVE Orderings(_)
\* the sequences that list every element of S once
Orderings(S) ==
    IF S = {} THEN {<<>>}
    ELSE UNION {{<<x>> \o p : p \in Orderings(S \ {x})} : x \in S}

RECURSIVE ArgSorts(_, _)
ArgSortsFrom(rows, left, first) ==
    {p \o q : p \in Orderings(first), q \in ArgSorts(rows, left \ first)}

\* the orders of the positions `left` in which the timestamps ascend
ArgSorts(rows, left) ==
    IF left = {} THEN {<<>>}
    ELSE ArgSortsFrom(rows, left, Earliest(rows, left))

\* every outcome of argsort over the rows with a timestamp
TieOrders(rows) == ArgSorts(rows, Timed(rows))

\* mutant: the group is left in table order
sort_values_unsorted(rows, order) == rows

sort_values(rows, order) == Take(rows, order) \o Filter(rows, NoDate(rows))

-----------------------------------------------------------------------------
(* run_analysis: the loop body (lines 107-147)                             *)

RuleMinRequests == 1000

TopN == 20

\* .fillna(0) of one cell, as a number
fillna0(c) == IF isna(c) THEN 0 ELSE c[2]

FillColumn(rows, c) == AsSeq([i \in DOMAIN rows |-> fillna0(rows[i][c])])

PresentMetrics(metrics, columns) == {m \in Range(metrics) : m \in columns}

\* an empty dict
NoMetrics == <<>>

RECURSIVE DetectAll(_, _, _)
\* lines 108-114: metric -> (flag, z) for the candidate metrics in the table
DetectAll(metrics, rows, columns) ==
    IF metrics = <<>> THEN NoMetrics
    ELSE LET rest == DetectAll(Tail(metrics), rows, columns)
         IN  IF Head(metrics) \in columns
             THEN (Head(metrics) :> detect_spikes(FillColumn(rows, Head(metrics)),
                                                  DefaultWindow, DefaultZThresh))
                  @@ rest
             ELSE rest

\* lines 117-119: the row-wise OR of the flags of the metrics in `sp`
combined_spike(sp, n) == AsSeq([i \in 1..n |-> \E m \in DOMAIN sp : sp[m][i]])

\* line 121: df_app.get(column, 0) is the integer 0 when the column is
\* absent, and 0 has no fillna: AttributeError
RuleRaises(columns) ==
    \/ "impressions" \notin columns
    \/ "total_requests" \notin columns

\* mutant: impressions is compared without fillna(0)
rule_zero_impr_nofill(rows) ==
    AsSeq([i \in DOMAIN rows |->
            /\ rows[i]["impressions"] = Num(0)
            /\ fillna0(rows[i]["total_requests"]) > RuleMinRequests])

rule_zero_impr(rows) ==
    AsSeq([i \in DOMAIN rows |->
            /\ fillna0(rows[i]["impressions"]) = 0
            /\ fillna0(rows[i]["total_requests"]) > RuleMinRequests])

\* line 122
\* mutant: the two signals are combined with & instead of |
OrAsAnd(a, b) == AsSeq([i \in DOMAIN a |-> a[i] /\ b[i]])

\* a | b, row-wise
Or(a, b) == AsSeq([i \in DOMAIN a |-> a[i] \/ b[i]])

Suspicious(sp, rows) == Or(combined_spike(sp, Len(rows)), rule_zero_impr(rows))

\* Series.corr: Pearson's r over the rows where both values are defined,
\* r = num / sqrt(dx * dy), kept as <<"corr", num, dx, dy>>; NaN when fewer
\* than two such rows or when one side does not vary.
BothDefined(xs, ys) == AsSeq([i \in DOMAIN xs |-> ~isna(xs[i]) /\ ~isna(ys[i])])

Values(xs) == AsSeq([i \in DOMAIN xs |-> fillna0(xs[i])])

Products(x, y) == AsSeq([i \in DOMAIN x |-> x[i] * y[i]])

PearsonOf(n, sx, sy, sxy, sxx, syy) ==
    IF n < 2 \/ SumSqDev(n, sx, sxx) = 0 \/ SumSqDev(n, sy, syy) = 0 THEN NaN
    ELSE <<"corr", n * sxy - sx * sy, SumSqDev(n, sx, sxx), SumSqDev(n, sy, syy)>>

PearsonXY(x, y) ==
    PearsonOf(Len(x), Sum(x), Sum(y), Sum(Products(x, y)), SumSq(x), SumSq(y))

Pearson(xs, ys) ==
    PearsonXY(Filter(Values(xs), BothDefined(xs, ys)),
              Filter(Values(ys), BothDefined(xs, ys)))

\* lines 125-129
Corr(rows, columns) ==
    IF "IVT" \in columns
    THEN [m \in PresentMetrics(SpikeMetrics, columns) |->
            Pearson(Column(rows, m), Column(rows, "IVT"))]
    ELSE NoMetrics

\* str.replace(old, new)
Replace(name, old, new) ==
    [i \in DOMAIN name |-> IF name[i] = old THEN new ELSE name[i]]

\* line 134: f"{str(app)}_{metric}.png".replace('/','_')
ChartFile(app, metric) ==
    Replace(StrOf(app) \o <<Underscore>> \o Chars(metric) \o DotPng,
            Slash, Underscore)

\* savefig: the file is created or overwritten
WriteFile(dir, name, content) ==
    [f \in DOMAIN dir \cup {name} |-> IF f = name THEN content ELSE dir[f]]

RECURSIVE SaveCharts(_, _, _, _, _)
\* lines 132-136, over the chart metrics in order
SaveCharts(dir, metrics, app, columns, hidx) ==
    IF metrics = <<>> THEN dir
    ELSE SaveCharts(
            IF Head(metrics) \in columns
            THEN WriteFile(dir, ChartFile(app, Head(metrics)),
                           [app |-> app, metric |-> Head(metrics),
                            highlight_idx |-> hidx])
            ELSE dir,
            Tail(metrics), app, columns, hidx)

\* suspicious.sum()
Count(mask) == Cardinality({i \in DOMAIN mask : mask[i]})

\* suspicious.mean(): count / n as <<"ratio", count, n>>, NaN for no rows
Mean(mask) ==
    IF Len(mask) = 0 THEN NaN ELSE <<"ratio", Count(mask), Len(mask)>>

\* mutant: the last k rows instead of the first k
head_tail(s, k) == SubSeq(s, Max(1, Len(s) - k + 1), Len(s))

\* .head(k)
head(s, k) == SubSeq(s, 1, Min(k, Len(s)))

\* lines 139-146
Entry(app, rows, susp, columns) ==
    [app                    |-> app,
     n_rows                 |-> Len(rows),
     suspicious_count       |-> Count(susp),
     suspicious_ratio       |-> Mean(susp),
     corr                   |-> Corr(rows, columns),
     top_suspicious_windows |-> head(Filter(rows, susp), TopN)]

-----------------------------------------------------------------------------
(* run_analysis: the workbook and the report (lines 149-186)               *)

DashboardFirstRow == 1

DashboardLastRow == 40

DashboardRowStep == 15

RECURSIVE LexLess(_, _)
\* a < b for strings
LexLess(a, b) ==
    IF b = <<>> THEN FALSE
    ELSE IF a = <<>> THEN TRUE
    ELSE IF Head(a) # Head(b) THEN Head(a) < Head(b)
    ELSE LexLess(Tail(a), Tail(b))

RECURSIVE sorted(_)
\* sorted(names)
sorted(names) ==
    IF names = {} THEN <<>>
    ELSE LET least == CHOOSE a \in names :
                          \A b \in names \ {a} : LexLess(a, b)
         IN  <<least>> \o sorted(names \ {least})

\* mutant: the loop has no row limit
InsertImagesNoLimit(files, y) ==
    [k \in DOMAIN files |->
        [row |-> y + (k - 1) * DashboardRowStep, path |-> files[k]]]

RECURSIVE InsertImages(_, _)
\* lines 159-165
InsertImages(files, y) ==
    IF files = <<>> \/ y > DashboardLastRow THEN <<>>
    ELSE <<[row |-> y, path |-> Head(files)]>>
         \o InsertImages(Tail(files), y + DashboardRowStep)

RECURSIVE Gcd(_, _)
Gcd(a, b) == IF b = 0 THEN a ELSE Gcd(b, a % b)

RECURSIVE Pow2Mod(_, _)
\* 2^k mod w
Pow2Mod(k, w) == IF k = 0 THEN 1 % w ELSE (2 * Pow2Mod(k - 1, w)) % w

RECURSIVE Shift(_, _)
\* the least j with a * 2^j >= d
Shift(a, d) == IF a >= d THEN 0 ELSE 1 + Shift(2 * a, d)

\* the fraction bits of a float
MantissaBits == 52

\* round to nearest, ties to even: a quotient with remainder `rem` of
\* `unit` is rounded up
RoundsUp(rem, unit, odd) == 2 * rem > unit \/ (2 * rem = unit /\ odd)

\* float(a / d), 0 < a < d, is m * 2^-k with k = MantissaBits + Shift(a, d)
\* and m = a * 2^k / d rounded.  From P = a * 2^k mod 256 * d:
\* the error m * d - a * 2^k
QuotientError(P, d) ==
    IF RoundsUp(P % d, d, (P \div d) % 2 = 1) THEN d - (P % d) ELSE -(P % d)

\* and m mod 256
QuotientLowBits(P, d) ==
    ((P \div d) + IF RoundsUp(P % d, d, (P \div d) % 2 = 1) THEN 1 ELSE 0) % 256

\* val *= 100: the product 100 * m has s bits more than a float keeps, 6
\* when m * 2^-MantissaBits < 1.28 and 7 otherwise
DroppedBits(a, d, e1) ==
    IF \/ 25 * a * 2^Shift(a, d) < 32 * d
       \/ 25 * a * 2^Shift(a, d) = 32 * d /\ e1 < 0
    THEN 6 ELSE 7

\* the error y * 2^s - 100 * m of the product y rounded to a float
ProductError(m, s) ==
    IF RoundsUp(((100 * m) % 2^(s + 1)) % 2^s, 2^s,
                ((100 * m) % 2^(s + 1)) \div 2^s = 1)
    THEN 2^s - (((100 * m) % 2^(s + 1)) % 2^s)
    ELSE -(((100 * m) % 2^(s + 1)) % 2^s)

FormatErrorOf(a, d, P, e1) ==
    100 * e1 + d * ProductError(QuotientLowBits(P, d), DroppedBits(a, d, e1))

FormatErrorFrom(a, d, P) == FormatErrorOf(a, d, P, QuotientError(P, d))

\* the sign of this number is the sign of float(a / d) * 100, as the floats
\* give it, minus 100 * a / d (a / d in lowest terms, 0 < a < d <= 2000)
FormatError(a, d) ==
    FormatErrorFrom(a, d,
        (a * Pow2Mod(MantissaBits + Shift(a, d), 256 * d)) % (256 * d))

\* "{:.1%}".format(ratio): the float ratio times 100, printed with one
\* decimal, as a number of tenths of a percent; NaN prints as nan%.  The
\* float is so close to count / n that the digit is that of the exact ratio
\* unless the exact ratio lies halfway between two tenths; there the error of
\* the float decides, and half to even when the float is exact.
Percent1(ratio) ==
    IF isna(ratio) THEN NaN
    ELSE LET c == ratio[2]
             n == ratio[3]
             q == (1000 * c) \div n
             r == (1000 * c) % n
         IN  IF 2 * r # n THEN Num(IF 2 * r > n THEN q + 1 ELSE q)
             ELSE LET err == FormatError(c \div Gcd(c, n), n \div Gcd(c, n))
                  IN  Num(IF err > 0 \/ (err = 0 /\ q % 2 = 1)
                          THEN q + 1 ELSE q)

HtmlLines(entries) ==
    [i \in DOMAIN entries |->
        [app  |-> StrOf(entries[i].app),
         rows |-> entries[i].n_rows,
         suspicious_windows |-> entries[i].suspicious_count,
         percent |-> Percent1(entries[i].suspicious_ratio),
         correlations |-> entries[i].corr]]

-----------------------------------------------------------------------------
(* The input tables.  Row i of a table of n rows is built from a shape: one *)
(* pattern for the timestamps, one for the application column, one for the *)
(* four ratio metrics and one for impressions / total_requests.  A layout  *)
(* says how the header is written and where the timestamps are.            *)

MaxRows == 30

MaxLen == 11

MaxShortLen == 7

RowCounts == {n \in {0, 1, 2, 16, 21, 30, MaxRows} : n <= MaxRows}

OptionalColumns ==
    {"app", "bundle_id", "impressions", "total_requests", "IVT"}
    \cup Range(SpikeMetrics)

\* the order the optional columns are written in
ColumnOrder ==
    <<"app", "bundle_id", "impressions", "total_requests", "IVT">>
    \o SpikeMetrics

RECURSIVE Chosen(_, _)
Chosen(order, cols) ==
    IF order = <<>> THEN <<>>
    ELSE (IF Head(order) \in cols THEN <<Head(order)>> ELSE <<>>)
         \o Chosen(Tail(order), cols)

\* plain: a Date column first; padded: the same with blanks around every
\* name; hour: an Hour column before the Date column; ts_col: no column with
\* a date-like name, the timestamps in the first column
Layouts == {"plain", "padded", "hour", "ts_col"}

TimeColumns(layout) ==
    CASE layout = "hour"   -> <<"Hour", "Date">>
      [] layout = "ts_col" -> <<"ts_col">>
      [] OTHER             -> <<"Date">>

Written(layout, name) ==
    IF layout = "padded" THEN <<160, 32>> \o Chars(name) \o <<9, 12288>>
    ELSE Chars(name)

AppA == Str(<<65>>)

AppB == Str(<<66>>)

AppSlash == Str(<<65, 47, 66>>)

AppUnder == Str(<<65, 95, 66>>)

DatePatterns == {"asc", "desc", "mixed"}

AppPatterns == {"one", "two", "odd"}

MetricPatterns == {"flat", "mid", "late"}

RulePatterns == {"none", "hot", "most", "edge"}

Shapes == [date : DatePatterns, app : AppPatterns, metric : MetricPatterns,
           rule : RulePatterns]

DateCell(pat, i, n) ==
    CASE pat = "asc"   -> Num(i)
      [] pat = "desc"  -> Num(n - i)
      [] pat = "mixed" -> IF i % 5 = 4 THEN Text
                          ELSE IF i % 5 = 2 THEN NaN
                          ELSE IF i \in {1, 8, 20} THEN Num(50)
                          ELSE IF i \in {6, 13} THEN Num(60)
                          ELSE Num(100 - i)

AppCell(pat, i) ==
    CASE pat = "one" -> AppA
      [] pat = "two" -> IF i % 2 = 1 THEN AppA ELSE AppB
      [] pat = "odd" -> CASE i % 4 = 0 -> NaN
                          [] i % 4 = 1 -> AppSlash
                          [] i % 4 = 2 -> AppUnder
                          [] i % 4 = 3 -> AppA

MetricIndex(m) == CHOOSE k \in DOMAIN SpikeMetrics : SpikeMetrics[k] = m

MetricCell(pat, m, i, n) ==
    LET k == MetricIndex(m)
    IN  CASE pat = "flat" -> Num(1)
          [] pat = "mid"  -> IF i = 15 THEN Num(100) ELSE Num(1)
          [] pat = "late" -> IF i = n - k + 1 THEN Num(100)
                             ELSE IF k = 2 /\ i = 3 THEN NaN
                             ELSE IF k = 3 /\ i = 3 THEN Text
                             ELSE Num(1)

ImpressionsCell(pat, i) ==
    CASE pat = "none" -> Num(5)
      [] pat = "hot"  -> Num(0)
      [] pat = "most" -> IF i % 4 = 0 THEN Num(5) ELSE Num(0)
      [] pat = "edge" -> CASE i % 6 = 2 -> NaN
                           [] i % 6 = 3 -> Text
                           [] i % 6 = 4 -> Num(1)
                           [] OTHER     -> Num(0)

RequestsCell(pat, i) ==
    CASE pat = "none" -> Num(10)
      [] pat = "hot"  -> Num(2 * RuleMinRequests)
      [] pat = "most" -> Num(2 * RuleMinRequests)
      [] pat = "edge" -> CASE i % 6 = 0 -> Num(RuleMinRequests)
                           [] i % 6 = 1 -> Num(RuleMinRequests + 1)
                           [] i % 6 = 3 -> Num(5 * RuleMinRequests)
                           [] i % 6 = 5 -> NaN
                           [] OTHER     -> Num(2 * RuleMinRequests)

IvtCell(i) == IF i % 5 = 4 THEN NaN ELSE Num(IF i % 3 = 0 THEN 1 ELSE 0)

RawCell(c, layout, shape, i, n) ==
    CASE c = "Date"           -> IF layout = "hour" THEN Num(7)
                                 ELSE DateCell(shape.date, i, n)
      [] c = "Hour"           -> DateCell(shape.date, i, n)
      [] c = "ts_col"         -> DateCell(shape.date, i, n)
      [] c = "app"            -> AppCell(shape.app, i)
      [] c = "bundle_id"      -> IF i % 3 = 0 THEN AppA ELSE AppB
      [] c = "impressions"    -> ImpressionsCell(shape.rule, i)
      [] c = "total_requests" -> RequestsCell(shape.rule, i)
      [] c = "IVT"            -> IvtCell(i)
      [] OTHER                -> MetricCell(shape.metric, c, i, n)

TableOf(layout, names, shape, n) ==
    [header |-> AsSeq([k \in DOMAIN names |-> Written(layout, names[k])]),
     rows   |-> AsSeq([i \in 1..n |->
                  AsSeq([k \in DOMAIN names |->
                          RawCell(names[k], layout, shape, i, n)])])]

TableWith(layout, cols, shape, n) ==
    TableOf(layout, TimeColumns(layout) \o Chosen(ColumnOrder, cols), shape, n)

Table(cols, shape, n) == TableWith("plain", cols, shape, n)

\* every subset of the optional columns, on two shapes
ColumnSweep ==
    {Table(cols, shape, n) :
        cols \in SUBSET OptionalColumns,
        shape \in {[date |-> "asc", app |-> "two", metric |-> "late",
                    rule |-> "edge"],
                   [date |-> "asc", app |-> "one", metric |-> "mid",
                    rule |-> "none"]},
        n \in {k \in {2, 30, MaxRows} : k <= MaxRows}}

\* every shape and every row count, with and without an application column
DataSweep ==
    {Table(cols, shape, n) :
        cols \in {OptionalColumns \ {"bundle_id"},
                  OptionalColumns \ {"app", "bundle_id", "IVT"}},
        shape \in Shapes,
        n \in RowCounts}

\* the other layouts
LayoutSweep ==
    {TableWith(layout, cols, shape, n) :
        layout \in Layouts \ {"plain"},
        cols \in {OptionalColumns \ {"bundle_id"}, {"idfa_ua_ratio"}},
        shape \in {[date |-> d, app |-> "two", metric |-> "mid",
                    rule |-> "edge"] : d \in DatePatterns},
        n \in {k \in {2, 30, MaxRows} : k <= MaxRows}}

\* a table without columns
EmptyTable == [header |-> <<>>, rows |-> <<>>]

InputTables == ColumnSweep \cup DataSweep \cup LayoutSweep \cup {EmptyTable}

NoFiles == [f \in {} |-> NaN]

\* a charts directory left by an earlier run holds that run's files
StaleFile == <<48>> \o DotPng

StaleCharts ==
    WriteFile(NoFiles, StaleFile,
              [app |-> Str(<<48>>), metric |-> "stale", highlight_idx |-> {}])

NoWorkbook == [summary |-> <<>>, raw_data |-> <<>>, dashboard |-> <<>>]

BoundedSeq(S, n) == UNION {[1..k -> S] : k \in 0..n}

SeriesInputs == BoundedSeq({1, 100}, MaxLen) \cup BoundedSeq({0, 1, 5}, MaxShortLen)

Windows == {1, 3, DefaultWindow}

Thresholds == {-1, 0, DefaultZThresh}

-----------------------------------------------------------------------------
(* run_analysis as a state machine                                         *)

InitLocals ==
    /\ apps = <<>>
    /\ df_app = <<>>
    /\ spikes = NoMetrics
    /\ zscores = NoMetrics
    /\ suspicious = <<>>
    /\ report_entries = <<>>
    /\ workbook = NoWorkbook
    /\ html = <<>>
    /\ error = "none"

Init ==
    /\ pc = "run_analysis"
    /\ \/ df \in InputTables /\ charts_dir = NoFiles
       \/ /\ df \in {Table(OptionalColumns \ {"bundle_id"},
                           [date |-> "asc", app |-> a, metric |-> "flat",
                            rule |-> "edge"], 2) : a \in AppPatterns}
          /\ charts_dir = StaleCharts
    /\ InitLocals
    /\ series = <<>>
    /\ window = DefaultWindow
    /\ z_thresh = DefaultZThresh
    /\ flag = <<>>
    /\ z = <<>>

\* lines 85-101
Preprocess ==
    /\ pc = "run_analysis"
    /\ ~NoFirstColumn(df)
    /\ df' = preprocess(df)
    /\ apps' = AppsOf(preprocess(df))
    /\ report_entries' = <<>>
    /\ pc' = "loop"
    /\ UNCHANGED <<df_app, spikes, zscores, suspicious, charts_dir, workbook,
                   html, error, spikeVars>>

\* line 54 raises for a table without columns; nothing catches it
PreprocessRaises ==
    /\ pc = "run_analysis"
    /\ NoFirstColumn(df)
    /\ pc' = "raised"
    /\ error' = "IndexError"
    /\ UNCHANGED <<df, apps, df_app, spikes, zscores, suspicious, report_entries,
                   charts_dir, workbook, html, spikeVars>>

\* the application the loop is at
CurrentApp == apps[Len(report_entries) + 1]

\* lines 103-147: one iteration of the loop over apps
ProcessApp ==
    /\ pc = "loop"
    /\ Len(report_entries) < Len(apps)
    /\ ~RuleRaises(df.columns)
    /\ \E group \in {GroupRows(df, CurrentApp)} :
       \E order \in TieOrders(group) :
       \E rows \in {sort_values(group, order)} :
       \E found \in {DetectAll(SpikeMetrics, rows, df.columns)} :
       \E sp \in {[m \in DOMAIN found |-> found[m][1]]} :
       \E susp \in {Suspicious(sp, rows)} :
            /\ df_app' = rows
            /\ spikes' = sp
            /\ zscores' = [m \in DOMAIN found |-> found[m][2]]
            /\ suspicious' = susp
            /\ charts_dir' = SaveCharts(charts_dir, ChartMetrics, CurrentApp,
                                        df.columns, {i \in DOMAIN susp : susp[i]})
            /\ report_entries' =
                   Append(report_entries,
                          Entry(CurrentApp, rows, susp, df.columns))
    /\ UNCHANGED <<pc, df, apps, workbook, html, error, spikeVars>>

\* line 121 raises in the first iteration when impressions or total_requests
\* is not a column; nothing catches it
ProcessAppRaises ==
    /\ pc = "loop"
    /\ Len(report_entries) < Len(apps)
    /\ RuleRaises(df.columns)
    /\ pc' = "raised"
    /\ error' = "AttributeError"
    /\ UNCHANGED <<df, apps, df_app, spikes, zscores, suspicious, report_entries,
                   charts_dir, workbook, html, spikeVars>>

\* lines 149-166
BuildWorkbook ==
    /\ pc = "loop"
    /\ Len(report_entries) = Len(apps)
    /\ workbook' = [summary   |-> report_entries,
                    raw_data  |-> df.rows,
                    dashboard |-> InsertImages(sorted(DOMAIN charts_dir),
                                               DashboardFirstRow)]
    /\ pc' = "report"
    /\ UNCHANGED <<df, apps, df_app, spikes, zscores, suspicious, report_entries,
                   charts_dir, html, error, spikeVars>>

\* lines 168-189
WriteReport ==
    /\ pc = "report"
    /\ html' = HtmlLines(report_entries)
    /\ pc' = "done"
    /\ UNCHANGED <<df, apps, df_app, spikes, zscores, suspicious, report_entries,
                   charts_dir, workbook, error, spikeVars>>

Next ==
    \/ Preprocess
    \/ PreprocessRaises
    \/ ProcessApp
    \/ ProcessAppRaises
    \/ BuildWorkbook
    \/ WriteReport

Spec == Init /\ [][Next]_vars

-----------------------------------------------------------------------------
(* detect_spikes on its own                                                *)

InitSpikes ==
    /\ pc = "detect_spikes"
    /\ df = [columns |-> {}, rows |-> <<>>]
    /\ charts_dir = NoFiles
    /\ InitLocals
    /\ series \in SeriesInputs
    /\ window \in Windows
    /\ z_thresh \in Thresholds
    /\ flag = <<>>
    /\ z = <<>>

DetectSpikes ==
    /\ pc = "detect_spikes"
    /\ flag' = detect_spikes(series, window, z_thresh)[1]
    /\ z' = detect_spikes(series, window, z_thresh)[2]
    /\ pc' = "returned"
    /\ UNCHANGED <<series, window, z_thresh, runVars>>

NextSpikes == DetectSpikes

SpecSpikes == InitSpikes /\ [][NextSpikes]_vars

\* both entry points: a call of detect_spikes or a run of run_analysis
InitAll == Init \/ InitSpikes

NextAll == Next \/ NextSpikes

SpecAll == InitAll /\ [][NextAll]_vars

-----------------------------------------------------------------------------
(* Properties.  After an iteration of the loop df_app, spikes and suspicious *)
(* are those of the group of the last report entry.                         *)

Processed == Len(report_entries) > 0

LastEntry == report_entries[Len(report_entries)]

\* the value of a cell, a missing one counting as 0
CellValue(row, c) == IF IsNum(row[c]) THEN row[c][2] ELSE 0

ZeroImpressionsHighRequests(row) ==
    /\ CellValue(row, "impressions") = 0
    /\ CellValue(row, "total_requests") > 1000

AnySpike(i) == \E m \in DOMAIN spikes : spikes[m][i]

SuspiciousRows == {i \in DOMAIN suspicious : suspicious[i]}

\* C1: every row of a processed group with impressions = 0 (missing as 0) and
\* total_requests > 1000 (missing as 0) is suspicious, whatever the spike
\* flags of the metrics are.
C1_ZeroImpressionsRule ==
    Processed =>
        /\ DOMAIN suspicious = DOMAIN df_app
        /\ \A i \in DOMAIN df_app :
              ZeroImpressionsHighRequests(df_app[i]) => suspicious[i]

\* a row with missing impressions and many requests, flagged by the rule alone
\* in a group where some metric spikes elsewhere
C1_Witness ==
    /\ Processed
    /\ \E i \in DOMAIN df_app :
          /\ isna(df_app[i]["impressions"])
          /\ ZeroImpressionsHighRequests(df_app[i])
          /\ ~AnySpike(i)
          /\ suspicious[i]
    /\ \E j \in DOMAIN df_app : AnySpike(j)

\* preprocess has returned: df is the table run_analysis works on
Loaded == pc \in {"loop", "report", "done"} \/ error = "AttributeError"

\* C2: a missing expected column is never an error: whatever subset of the
\* recognized columns the table has next to its timestamp column, run_analysis
\* does not raise and appends a report entry for every group.
C2_MissingColumnNeverRaises ==
    Loaded =>
        /\ pc # "raised"
        /\ error = "none"
        /\ pc = "done" => Len(report_entries) = Len(apps)

WindowIsConstant(i) ==
    \A j \in Max(1, i - window + 1)..i : series[j] = series[i]

\* C3: detect_spikes flags no row of a series whose values are all equal, for
\* any length, window and threshold: wherever the rolling standard deviation
\* is 0 or undefined (the window holds one value, repeated or not), the
\* z-score is undefined and the flag is false.
C3_ConstantSeriesNeverFlagged ==
    pc = "returned" =>
        /\ DOMAIN flag = DOMAIN series
        /\ DOMAIN z = DOMAIN series
        /\ \A i \in DOMAIN series :
              WindowIsConstant(i) => isna(z[i]) /\ ~flag[i]

\* a constant series of three rows or more under a threshold that every
\* defined z-score exceeds
C3_Witness ==
    /\ pc = "returned"
    /\ Len(series) >= 3
    /\ \A i \in DOMAIN series : series[i] = series[1]
    /\ window = DefaultWindow
    /\ z_thresh < 0
    /\ \A i \in DOMAIN flag : ~flag[i]

Implies(a, b) == \A i \in DOMAIN a : a[i] => b[i]

Restrict(f, S) == [m \in S |-> f[m]]

\* C4: a row of a processed group is suspicious iff some candidate metric
\* present in the table spikes at that row or the zero-impressions rule holds
\* for it; the flags obtained from any subset of the metrics imply the flags
\* obtained from all of them.
C4_SuspiciousIffSignal ==
    Processed =>
        /\ DOMAIN spikes = {m \in Range(SpikeMetrics) : m \in df.columns}
        /\ \A i \in DOMAIN df_app :
              suspicious[i] <=>
                  (AnySpike(i) \/ ZeroImpressionsHighRequests(df_app[i]))
        /\ \A M \in SUBSET DOMAIN spikes :
              Implies(Suspicious(Restrict(spikes, M), df_app), suspicious)

\* a row flagged by the spike of exactly one of several metrics and not by
\* the rule, next to a row that is not flagged
C4_Witness ==
    /\ Processed
    /\ Cardinality(DOMAIN spikes) > 1
    /\ \E i \in DOMAIN df_app :
          /\ suspicious[i]
          /\ ~ZeroImpressionsHighRequests(df_app[i])
          /\ Cardinality({m \in DOMAIN spikes : spikes[m][i]}) = 1
    /\ \E j \in DOMAIN df_app : ~suspicious[j]

\* timestamps ascending, the rows without a timestamp last
DateOrdered(rows) ==
    \A i, j \in DOMAIN rows :
        i < j =>
            /\ isna(rows[i]["Date"]) => isna(rows[j]["Date"])
            /\ ~isna(rows[j]["Date"]) => rows[i]["Date"][2] <= rows[j]["Date"][2]

InGroup(row, key) ==
    \/ app_col(df) = "none"
    \/ ~isna(key) /\ row[app_col(df)] = key

Occurrences(rows, r) == Cardinality({i \in DOMAIN rows : rows[i] = r})

GroupOccurrences(key, r) ==
    Cardinality({i \in DOMAIN df.rows :
                    InGroup(df.rows[i], key) /\ df.rows[i] = r})

\* df_app holds the rows of the group `key`, each as often as the table does
PermutationOfGroup(key) ==
    /\ Len(df_app) = Cardinality({i \in DOMAIN df.rows : InGroup(df.rows[i], key)})
    /\ \A r \in Range(df_app) : Occurrences(df_app, r) = GroupOccurrences(key, r)

\* C5: whatever the order of the table's rows, the rows of a processed group
\* are the group's rows in timestamp-ascending order (rows without a
\* timestamp last), the spike flags are those of the metric columns read in
\* that order, and the report entry, its suspicious sample and the points
\* highlighted in the charts are taken from the same sequence.
C5_SortedBeforeRolling ==
    Processed =>
        /\ DateOrdered(df_app)
        /\ PermutationOfGroup(LastEntry.app)
        /\ \A m \in DOMAIN spikes :
              spikes[m] = detect_spikes(FillColumn(df_app, m), 24, 3)[1]
        /\ LastEntry.n_rows = Len(df_app)
        /\ DateOrdered(LastEntry.top_suspicious_windows)
        /\ \A m \in Range(ChartMetrics) :
              m \in df.columns =>
                  charts_dir[ChartFile(LastEntry.app, m)].highlight_idx
                      = SuspiciousRows

\* a group whose rows were out of order in the table, with a spike found
C5_Witness ==
    /\ Processed
    /\ \E i, j \in DOMAIN df.rows :
          /\ i < j
          /\ InGroup(df.rows[i], LastEntry.app)
          /\ InGroup(df.rows[j], LastEntry.app)
          /\ IsNum(df.rows[i]["Date"]) /\ IsNum(df.rows[j]["Date"])
          /\ df.rows[i]["Date"][2] > df.rows[j]["Date"][2]
    /\ \E k \in DOMAIN df_app : AnySpike(k)

\* the table of the end-to-end scenario: no application column, 30 rows with
\* the timestamps 1..30 in order, one ratio metric that is 1 in every row but
\* row 15, where it is 100, and no row the zero-impressions rule applies to
ScenarioTable ==
    /\ Loaded
    /\ app_col(df) = "none"
    /\ Len(df.rows) = 30
    /\ Cardinality({m \in Range(SpikeMetrics) : m \in df.columns}) = 1
    /\ \A i \in DOMAIN df.rows :
          /\ df.rows[i]["Date"] = Num(i)
          /\ \A m \in Range(SpikeMetrics) :
                m \in df.columns =>
                    df.rows[i][m] = Num(IF i = 15 THEN 100 ELSE 1)
          /\ ("impressions" \in df.columns /\ "total_requests" \in df.columns)
                => ~ZeroImpressionsHighRequests(df.rows[i])

OnlyRow15 == [i \in 1..30 |-> i = 15]

\* C6: on the scenario table run_analysis runs to its end and flags row 15
\* and no other row, so that suspicious_count is 1.
C6_ScenarioFlagsRow15 ==
    ScenarioTable =>
        /\ pc # "raised"
        /\ Processed =>
              /\ suspicious = OnlyRow15
              /\ LastEntry.suspicious_count = 1

\* what the scenario gives when the table also has the impressions and
\* total_requests columns
C6_ScenarioWithRuleColumns ==
    (ScenarioTable /\ ~RuleRaises(df.columns)) =>
        /\ pc # "raised"
        /\ Processed =>
              /\ suspicious = OnlyRow15
              /\ LastEntry.suspicious_count = 1

DistinctApps == {df.rows[i][app_col(df)] : i \in DOMAIN df.rows}

\* C7: the report has one entry per application group, and every entry has
\* 0 <= suspicious_count <= n_rows and suspicious_ratio = suspicious_count /
\* n_rows, a defined value in [0, 1].
C7_EntryPerGroup ==
    /\ \A k \in DOMAIN report_entries :
          /\ report_entries[k].suspicious_count \in 0..report_entries[k].n_rows
          /\ ~isna(report_entries[k].suspicious_ratio)
          /\ report_entries[k].suspicious_ratio[2] = report_entries[k].suspicious_count
          /\ report_entries[k].suspicious_ratio[3] = report_entries[k].n_rows
          /\ report_entries[k].n_rows > 0
    /\ pc = "done" =>
          Len(report_entries) =
              IF app_col(df) = "none" THEN 1 ELSE Cardinality(DistinctApps)

SuspiciousUpTo(p) == Cardinality({q \in 1..p : suspicious[q]})

\* C8: the sample of a report entry is the first min(20, suspicious_count)
\* suspicious rows of the group, in the group's order: its j-th row is the
\* j-th suspicious row of df_app.
C8_TopSuspiciousWindows ==
    Processed =>
        /\ LastEntry.suspicious_count = Cardinality(SuspiciousRows)
        /\ Len(LastEntry.top_suspicious_windows)
              = Min(20, Cardinality(SuspiciousRows))
        /\ \A j \in DOMAIN LastEntry.top_suspicious_windows :
              \E p \in DOMAIN df_app :
                  /\ suspicious[p]
                  /\ SuspiciousUpTo(p) = j
                  /\ LastEntry.top_suspicious_windows[j] = df_app[p]

\* more than 20 suspicious rows, with a row that is not suspicious among the
\* first 20 rows of the group
C8_Witness ==
    /\ Processed
    /\ Cardinality(SuspiciousRows) > 20
    /\ Len(LastEntry.top_suspicious_windows) = 20
    /\ \E p \in 1..20 : ~suspicious[p]

\* the (group, metric) pairs the run charts
ChartedPairs ==
    {<<apps[k], m>> : k \in DOMAIN apps,
                      m \in {c \in Range(ChartMetrics) : c \in df.columns}}

DashboardPaths == {workbook.dashboard[k].path : k \in DOMAIN workbook.dashboard}

\* C9 as stated: after the run every charted (group, metric) pair has its own
\* chart file and every such file is inserted in the dashboard sheet.
C9_DashboardEmbedsEveryChart ==
    pc = "done" =>
        \A p \in ChartedPairs :
            /\ ChartFile(p[1], p[2]) \in DOMAIN charts_dir
            /\ charts_dir[ChartFile(p[1], p[2])].app = p[1]
            /\ charts_dir[ChartFile(p[1], p[2])].metric = p[2]
            /\ ChartFile(p[1], p[2]) \in DashboardPaths

FilesBefore(f) == Cardinality({g \in DOMAIN charts_dir : LexLess(g, f)})

\* C9 amended: the charts directory holds a file under the name of every
\* charted pair, and the dashboard sheet holds the first three files of the
\* directory in file-name order (all of them when there are three or fewer),
\* at rows 1, 16 and 31.
C9_DashboardEmbedsFirstThree ==
    (pc = "report" \/ pc = "done") =>
        /\ \A p \in ChartedPairs : ChartFile(p[1], p[2]) \in DOMAIN charts_dir
        /\ Len(workbook.dashboard) = Min(3, Cardinality(DOMAIN charts_dir))
        /\ \A k \in DOMAIN workbook.dashboard :
              /\ workbook.dashboard[k].row = 1 + 15 * (k - 1)
              /\ workbook.dashboard[k].path \in DOMAIN charts_dir
              /\ FilesBefore(workbook.dashboard[k].path) = k - 1

\* a finished run with more than three chart files
C9_Witness ==
    /\ pc = "done"
    /\ Cardinality(DOMAIN charts_dir) > 3
    /\ Len(workbook.dashboard) = 3

\* C10: with the threshold 3.0 detect_spikes flags none of the first 10 rows
\* of a series, whatever the values and the window; so in run_analysis no
\* metric spikes in the first 10 rows of a group, and a suspicious row among
\* them comes from the zero-impressions rule.
C10_NoSpikeInFirstTenRows ==
    /\ (pc = "returned" /\ z_thresh = 3) =>
          \A i \in DOMAIN flag : i <= 10 => ~flag[i]
    /\ Processed =>
          \A i \in DOMAIN df_app :
              i <= 10 =>
                  /\ ~AnySpike(i)
                  /\ suspicious[i] => ZeroImpressionsHighRequests(df_app[i])

\* the 11th row can be flagged
C10_Witness ==
    /\ pc = "returned"
    /\ z_thresh = 3
    /\ Len(flag) >= 11
    /\ flag[11]

=============================================================================
